---- MODULE Spec2Model ----
(***************************************************************************)
(* A model of src/src/ffo/fault.py: FaultOrdering (the flat layout of the  *)
(* patches of several subfaults), FaultGeometry (the store of extended     *)
(* sources per datatype, component and subfault, and its lookups),         *)
(* positions2idxs (positions on the fault to grid indexes),                *)
(* discretize_sources (the geometry built from reference source planes)    *)
(* and the start times of a rupture (point2starttimes and                  *)
(* get_subfault_starttimes, with the fast sweeping solver they call).      *)
(*                                                                         *)
(* A method of FaultGeometry is an operator from the object and the        *)
(* arguments to an outcome [ret, self]: what the call returns or raises,   *)
(* and the object after the call.  Python values are modelled by value:    *)
(* lists are sequences (index 0 of Python is index 1 here), the dictionary *)
(* _ext_sources is a function on its key strings, an exception is a        *)
(* result with ok = FALSE that names the exception class and its message.  *)
(* Lengths are integers in ticks; a cell size is an even number of ticks,  *)
(* so that half a cell is a whole number of ticks and the arithmetic of    *)
(* positions2idxs is exact (the rounding error of the floating point       *)
(* operations is not modelled).  Times are integers in ticks as well: a    *)
(* rupture of velocity 1 takes TimeScale ticks of time for one tick of     *)
(* length, and the root of the quadratic update is rounded down.           *)
(***************************************************************************)
EXTENDS Integers, Sequences, FiniteSets, TLC

VARIABLES
    fault,  \* the FaultGeometry object: datatypes, components, ext_sources, ordering
    pc,     \* "idle": no call is running; else the name of the call that has ended
    call,   \* the call that ended last: its name and arguments
    rv,     \* what that call returned or raised
    history, \* the (datatype, component) pairs a setup call has succeeded for
    solver  \* the rupture time solver while it runs (pc = "fast_sweep")

vars == <<fault, pc, call, rv, history, solver>>

(***************************************************************************)
(* Bounds of the model.                                                    *)
(***************************************************************************)
MaxSub == 2
MaxDim == 2

(***************************************************************************)
(* Python and numpy values.                                                *)
(***************************************************************************)
None == "None"

IndexBits == 16

Int16Min == -(2 ^ (IndexBits - 1))

Int16Max == 2 ^ (IndexBits - 1) - 1

\* A C conversion of an integer to npy_short keeps the low 16 bits.
WrapInt16(x) == ((x - Int16Min) % (2 ^ IndexBits)) + Int16Min

\* A saturating conversion to npy_short.
SatInt16(x) == IF x > Int16Max THEN Int16Max ELSE IF x < Int16Min THEN Int16Min ELSE x

Return(v) == [ok |-> TRUE, exc |-> None, msg |-> None, val |-> v]

Raise(exc, msg) == [ok |-> FALSE, exc |-> exc, msg |-> msg, val |-> None]

Outcome(r, self) == [ret |-> r, self |-> self]

\* seq[i] of a Python list: a negative index counts from the end.
PyGetItem(seq, i) ==
    IF 0 <= i /\ i < Len(seq) THEN Return(seq[i + 1])
    ELSE IF -Len(seq) <= i /\ i < 0 THEN Return(seq[Len(seq) + i + 1])
    ELSE Raise("IndexError", "list index out of range")

\* d[key] = value of a Python dict.
DictSet(d, key, value) ==
    [k \in (DOMAIN d) \cup {key} |-> IF k = key THEN value ELSE d[k]]

EmptyDict == <<>>

Min(a, b) == IF a <= b THEN a ELSE b

(***************************************************************************)
(* FaultOrdering.                                                          *)
(***************************************************************************)
PatchMap(count, slc, shp, npatches) ==
    [count |-> count, slc |-> slc, shp |-> shp, npatches |-> npatches]

slice(start, stop) == [start |-> start, stop |-> stop]

\* num.arange(npatches, dtype='int16').reshape(shp)[d, s] for a cell of the
\* table: the element at the row-major place d * npl + s, filled in int16.
indexes(shp, d, s) == WrapInt16(d * shp[2] + s)

\* dim += npatches
AdvanceDimStuck(dim, npatches) == dim

AdvanceDim(dim, npatches) == dim + npatches

\* The loop of FaultOrdering.__init__ over zip(npls, npws), from subfault
\* count (0-based) on, with dim patches laid out so far.
RECURSIVE FaultOrderingLoop(_, _, _, _, _)
FaultOrderingLoop(npls, npws, count, dim, vmap) ==
    IF count >= Min(Len(npls), Len(npws))
    THEN [vmap |-> vmap, npatches |-> dim]
    ELSE LET npl == npls[count + 1]
             npw == npws[count + 1]
             npatches == npl * npw
             slc == slice(dim, dim + npatches)
             shp == <<npw, npl>>
         IN  FaultOrderingLoop(
                 npls, npws, count + 1, AdvanceDim(dim, npatches),
                 Append(vmap, PatchMap(count, slc, shp, npatches)))

FaultOrdering(npls, npws, patch_size_strike, patch_size_dip) ==
    LET built == FaultOrderingLoop(npls, npws, 0, 0, <<>>)
    IN  [patch_size_dip |-> patch_size_dip,
         patch_size_strike |-> patch_size_strike,
         vmap |-> built.vmap,
         npatches |-> built.npatches]

(***************************************************************************)
(* positions2idxs.                                                         *)
(***************************************************************************)
\* The keys of the backends dictionary (fault_locations2idxs: "which
\* implementation backend to use [numpy/theano]").
available_backends == {"numpy", "theano"}

\* The nearest integer to n / d, d > 0: numpy.round rounds a half to the even
\* neighbour, theano's round rounds a half away from zero.
round(backend, n, d) ==
    LET q == n \div d
        r == n - q * d
    IN  IF 2 * r < d THEN q
        ELSE IF 2 * r > d THEN q + 1
        ELSE IF backend = "numpy" THEN (IF q % 2 = 0 THEN q ELSE q + 1)
        ELSE (IF n >= 0 THEN q + 1 ELSE q)

\* .astype('int16') of a float holding the integer x: the value itself when
\* int16 holds it; otherwise the C conversion is undefined, and the builds
\* either keep the low 16 bits or saturate.
astype_int16(x) ==
    IF Int16Min <= x /\ x <= Int16Max THEN {x} ELSE {WrapInt16(x), SatInt16(x)}

\* The position minus half a cell, in ticks.
HalfCellShift(position, cell_size) == position - cell_size \div 2

\* The results positions2idxs can give for one position.
positions2idxs(position, cell_size, backend) ==
    IF backend \notin available_backends
    THEN {Raise("NotImplementedError", "Backend not supported!")}
    ELSE {Return(i) :
            i \in astype_int16(
                round(backend, HalfCellShift(position, cell_size), cell_size))}

(***************************************************************************)
(* FaultGeometry.                                                          *)
(***************************************************************************)
TypeError == "TypeError"

FaultGeometryError == "FaultGeometryError"

MsgDatatype == "Datatype not included in FaultGeometry"

MsgComponent == "Component not included in FaultGeometry"

MsgIndex == "Subfault with index not defined!"

MsgSetupMismatch == "Setup does not match fault ordering!"

MsgAlreadySpecified == "Subfault already specified in geometry!"

MsgNotDefined == "Requested subfault not defined!"

\* FaultGeometry.__init__
FaultGeometry(datatypes, components, ordering) ==
    [datatypes |-> datatypes,
     components |-> components,
     ext_sources |-> EmptyDict,
     ordering |-> ordering]

nsubfaults(self) == Len(self.ordering.vmap)

npatches(self) == self.ordering.npatches

InList(x, list) == \E k \in 1..Len(list) : list[k] = x

\* TRUE when the check passes, FALSE when it raises.
check_datatype(self, datatype) == InList(datatype, self.datatypes)

check_component(self, component) == InList(component, self.components)

check_indexOffByOne(self, index) == ~(index >= nsubfaults(self) - 1)

check_index(self, index) == ~(index > nsubfaults(self) - 1)

\* str(index)
str(index) == ToString(index)

\* datatype + '_' + component + '_' + str(index)
source_key_of(datatype, component, index) ==
    datatype \o "_" \o component \o "_" \o str(index)

get_subfault_key(self, index, datatype, component) ==
    IF datatype # None /\ ~check_datatype(self, datatype)
    THEN Raise(TypeError, MsgDatatype)
    ELSE IF component # None /\ ~check_component(self, component)
    THEN Raise(TypeError, MsgComponent)
    ELSE IF ~check_index(self, index)
    THEN Raise(TypeError, MsgIndex)
    ELSE LET dt == IF datatype # None THEN datatype ELSE self.datatypes[1]
             comp == IF component # None THEN component ELSE self.components[1]
         IN  Return(source_key_of(dt, comp, index))

\* if source_key not in self._ext_sources.keys() or replace
MayStoreAlways(self, source_key, replace) == TRUE

MayStore(self, source_key, replace) ==
    source_key \notin DOMAIN self.ext_sources \/ replace

\* The loop of setup_subfaults over enumerate(ext_sources), from i on.
RECURSIVE setup_subfaults_loop(_, _, _, _, _, _)
setup_subfaults_loop(self, datatype, component, ext_sources, replace, i) ==
    IF i >= Len(ext_sources)
    THEN Outcome(Return(None), self)
    ELSE LET source_key == get_subfault_key(self, i, datatype, component)
         IN  IF ~source_key.ok
             THEN Outcome(source_key, self)
             ELSE IF MayStore(self, source_key.val, replace)
             THEN setup_subfaults_loop(
                      [self EXCEPT !.ext_sources =
                          DictSet(@, source_key.val, ext_sources[i + 1])],
                      datatype, component, ext_sources, replace, i + 1)
             ELSE Outcome(Raise(FaultGeometryError, MsgAlreadySpecified), self)

\* if len(ext_sources) != self.nsubfaults
LengthMismatchNever(self, ext_sources) == FALSE

LengthMismatch(self, ext_sources) == Len(ext_sources) # nsubfaults(self)

setup_subfaults(self, datatype, component, ext_sources, replace) ==
    IF ~check_datatype(self, datatype)
    THEN Outcome(Raise(TypeError, MsgDatatype), self)
    ELSE IF ~check_component(self, component)
    THEN Outcome(Raise(TypeError, MsgComponent), self)
    ELSE IF LengthMismatch(self, ext_sources)
    THEN Outcome(Raise(FaultGeometryError, MsgSetupMismatch), self)
    ELSE setup_subfaults_loop(self, datatype, component, ext_sources, replace, 0)

assign_datatypeLast(self, datatype) ==
    IF datatype = None THEN self.datatypes[Len(self.datatypes)] ELSE datatype

assign_datatype(self, datatype) ==
    IF datatype = None THEN self.datatypes[1] ELSE datatype

assign_component(self, component) ==
    IF component = None THEN self.components[1] ELSE component

\* A lookup that takes the entry out of the dictionary.
get_subfaultPop(self, index, datatype, component) ==
    LET dt == assign_datatype(self, datatype)
        comp == assign_component(self, component)
        source_key == get_subfault_key(self, index, dt, comp)
    IN  IF ~source_key.ok
        THEN Outcome(source_key, self)
        ELSE IF source_key.val \in DOMAIN self.ext_sources
        THEN Outcome(
                 Return(self.ext_sources[source_key.val]),
                 [self EXCEPT !.ext_sources =
                     [k \in (DOMAIN @) \ {source_key.val} |-> @[k]]])
        ELSE Outcome(Raise(FaultGeometryError, MsgNotDefined), self)

get_subfault(self, index, datatype, component) ==
    LET dt == assign_datatype(self, datatype)
        comp == assign_component(self, component)
        source_key == get_subfault_key(self, index, dt, comp)
    IN  IF ~source_key.ok
        THEN Outcome(source_key, self)
        ELSE IF source_key.val \in DOMAIN self.ext_sources
        THEN Outcome(Return(self.ext_sources[source_key.val]), self)
        ELSE Outcome(Raise(FaultGeometryError, MsgNotDefined), self)

get_patch_indexes(self, index) ==
    IF ~check_index(self, index)
    THEN Outcome(Raise(TypeError, MsgIndex), self)
    ELSE LET pm == PyGetItem(self.ordering.vmap, index)
         IN  Outcome(IF pm.ok THEN Return(pm.val.slc) ELSE pm, self)

get_subfault_discretization(self, index) ==
    IF ~check_index(self, index)
    THEN Outcome(Raise(TypeError, MsgIndex), self)
    ELSE LET pm == PyGetItem(self.ordering.vmap, index)
         IN  Outcome(IF pm.ok THEN Return(pm.val.shp) ELSE pm, self)

\* RectangularSource.patches(nl, nw, datatype): the source cut into nl * nw
\* patches, each named here by its source and its place in the list.
patches(source, nl, nw, datatype) ==
    [k \in 1..(nl * nw) |-> [source |-> source, datatype |-> datatype, k |-> k]]

get_subfault_patches(self, index, datatype, component) ==
    IF ~check_index(self, index)
    THEN Outcome(Raise(TypeError, MsgIndex), self)
    ELSE LET dt == assign_datatype(self, datatype)
             comp == assign_component(self, component)
             subfault == get_subfault(self, index, dt, comp)
         IN  IF ~subfault.ret.ok
             THEN subfault
             ELSE LET shp == get_subfault_discretization(subfault.self, index)
                  IN  IF ~shp.ret.ok
                      THEN shp
                      ELSE Outcome(
                               Return(patches(subfault.ret.val,
                                              shp.ret.val[2], shp.ret.val[1], dt)),
                               shp.self)

\* patches += ...
ExtendFront(list, more) == more \o list

Extend(list, more) == list \o more

\* The loop of get_all_patches over range(self.nsubfaults), from i on.
RECURSIVE get_all_patches_loop(_, _, _, _, _)
get_all_patches_loop(self, datatype, component, i, list) ==
    IF i >= nsubfaults(self)
    THEN Outcome(Return(list), self)
    ELSE LET more == get_subfault_patches(self, i, datatype, component)
         IN  IF ~more.ret.ok
             THEN more
             ELSE get_all_patches_loop(
                      more.self, datatype, component, i + 1,
                      Extend(list, more.ret.val))

get_all_patches(self, datatype, component) ==
    get_all_patches_loop(
        self, assign_datatype(self, datatype),
        assign_component(self, component), 0, <<>>)

\* indexmap[dipidx, strikeidx] of a numpy array of shape shp: a negative
\* index counts from the end of its axis.
NumpyGetItem(shp, dipidx, strikeidx) ==
    IF /\ -shp[1] <= dipidx /\ dipidx < shp[1]
       /\ -shp[2] <= strikeidx /\ strikeidx < shp[2]
    THEN Return(indexes(shp, dipidx % shp[1], strikeidx % shp[2]))
    ELSE Raise("IndexError", "index is out of bounds for axis")

patchmap(self, index, dipidx, strikeidx) ==
    LET pm == PyGetItem(self.ordering.vmap, index)
    IN  IF ~pm.ok THEN Outcome(pm, self)
        ELSE Outcome(NumpyGetItem(pm.val.shp, dipidx, strikeidx), self)

\* smap[index][dipidx, strikeidx]: smap[index] is the table indexes of the
\* subfault as a shared variable, cast to int16 again (no change to an int16
\* table).
spatchmapGlobal(self, index, dipidx, strikeidx) ==
    LET pm == PyGetItem(self.ordering.vmap, index)
        cell == NumpyGetItem(pm.val.shp, dipidx, strikeidx)
    IN  IF ~pm.ok THEN Outcome(pm, self)
        ELSE IF ~cell.ok THEN Outcome(cell, self)
        ELSE Outcome(Return(pm.val.slc.start + cell.val), self)

spatchmap(self, index, dipidx, strikeidx) ==
    LET pm == PyGetItem(self.ordering.vmap, index)
        cell == NumpyGetItem(pm.val.shp, dipidx, strikeidx)
    IN  IF ~pm.ok THEN Outcome(pm, self)
        ELSE IF ~cell.ok THEN Outcome(cell, self)
        ELSE Outcome(Return(WrapInt16(cell.val)), self)

\* The outcomes fault_locations2idxs can have for one position on the fault.
fault_locations2idxs(self, positions_dip, positions_strike, backend) ==
    LET dipidx == positions2idxs(
            positions_dip, self.ordering.patch_size_dip, backend)
        strikeidx == positions2idxs(
            positions_strike, self.ordering.patch_size_strike, backend)
    IN  {Outcome(IF ~d.ok THEN d ELSE IF ~s.ok THEN s
                 ELSE Return(<<d.val, s.val>>), self) :
            d \in dipidx, s \in strikeidx}

(***************************************************************************)
(* discretize_sources.  A source plane is a record of its length and width *)
(* in metres, its rake in degrees, its slip and its opening; patch sizes   *)
(* are whole kilometres and an extension factor is a whole number of       *)
(* hundredths.                                                             *)
(***************************************************************************)
km == 1000

ValueError == "ValueError"

KeyError == "KeyError"

MsgSquarePatches ==
    "Seismic kinematic fault optimization does only support square patches (yet)! Please adjust the discretization!"

MsgOneMainFault(nsources) ==
    "Seismic kinematic fault optimization does only support one main fault (TODO fast sweeping across sub-faults)! nsources defined: "
        \o ToString(nsources)

slip_directions ==
    [uparr |-> [slip |-> 1, rake |-> 0],
     uperp |-> [slip |-> 1, rake |-> -90],
     utensile |-> [slip |-> 0, rake |-> 0, opening |-> 1]]

\* int(num.ceil(a / b)) for b > 0.
CeilDiv(a, b) == -((-a) \div b)

\* s.update(**param_mod): the attributes param_mod names are set.
update(s, param_mod) ==
    [k \in (DOMAIN s) \cup (DOMAIN param_mod) |->
        IF k \in DOMAIN param_mod THEN param_mod[k] ELSE s[k]]

\* The plane padded by the extension factors on both sides of each
\* direction and rounded up to whole patches.
extent_source(s, extension_width, extension_length, patch_width_m, patch_length_m) ==
    LET padded_length == s.length * (100 + 2 * extension_length)
        padded_width == s.width * (100 + 2 * extension_width)
    IN  [s EXCEPT
            !.length = CeilDiv(padded_length, 100 * patch_length_m)
                           * patch_length_m,
            !.width = CeilDiv(padded_width, 100 * patch_width_m)
                          * patch_width_m]

\* 'seismic' in datatypes and patch_length != patch_width
NonSquareAnyDatatype(datatypes, patch_length, patch_width) ==
    patch_length # patch_width

NonSquare(datatypes, patch_length, patch_width) ==
    InList("seismic", datatypes) /\ patch_length # patch_width

\* 'seismic' in datatypes and nsources > 1
SeveralSources(datatypes, nsources) ==
    InList("seismic", datatypes) /\ nsources > 1

\* The numbers of patches of the extended planes, along the strike (npls)
\* and along the dip (npws).
PatchCounts(sources, extension_width, extension_length, patch_width_m, patch_length_m) ==
    LET ext_source(i) ==
            extent_source(sources[i], extension_width, extension_length,
                          patch_width_m, patch_length_m)
    IN  [npls |-> [i \in 1..Len(sources) |->
                      CeilDiv(ext_source(i).length, patch_length_m)],
         npws |-> [i \in 1..Len(sources) |->
                      CeilDiv(ext_source(i).width, patch_width_m)]]

\* The loop over the sources for one datatype and one slip component, from
\* source i (1-based) on: param_mod is updated in place by each source.
RECURSIVE ExtendSources(_, _, _, _, _, _, _, _)
ExtendSources(sources, i, param_mod, ext_sources, extension_width, extension_length, patch_width_m, patch_length_m) ==
    IF i > Len(sources) THEN ext_sources
    ELSE LET with_rake ==
                 [param_mod EXCEPT !.rake = @ + sources[i].rake]
             s == update(sources[i], with_rake)
             ext_source ==
                 extent_source(s, extension_width, extension_length,
                               patch_width_m, patch_length_m)
         IN  ExtendSources(sources, i + 1, with_rake,
                           Append(ext_sources, ext_source),
                           extension_width, extension_length,
                           patch_width_m, patch_length_m)

\* The loops over the datatypes and the slip components, from the k-th
\* (0-based) combination on, the components of a datatype first.
RECURSIVE RegisterSources(_, _, _, _, _, _, _, _, _)
RegisterSources(self, k, sources, datatypes, varnames, extension_width, extension_length, patch_width_m, patch_length_m) ==
    IF k >= Len(datatypes) * Len(varnames) THEN Outcome(Return(None), self)
    ELSE LET datatype == datatypes[(k \div Len(varnames)) + 1]
             var == varnames[(k % Len(varnames)) + 1]
         IN  IF var \notin DOMAIN slip_directions
             THEN Outcome(Raise(KeyError, var), self)
             ELSE LET ext_sources ==
                          ExtendSources(
                              sources, 1, slip_directions[var], <<>>,
                              extension_width, extension_length,
                              patch_width_m, patch_length_m)
                      setup == setup_subfaults(
                                   self, datatype, var, ext_sources, FALSE)
                  IN  IF ~setup.ret.ok THEN setup
                      ELSE RegisterSources(
                               setup.self, k + 1, sources, datatypes,
                               varnames, extension_width, extension_length,
                               patch_width_m, patch_length_m)

\* What discretize_sources returns (the new FaultGeometry) or raises.
discretize_sources(sources, extension_width, extension_length, patch_width, patch_length, datatypes, varnames) ==
    IF NonSquare(datatypes, patch_length, patch_width)
    THEN Raise(ValueError, MsgSquarePatches)
    ELSE IF SeveralSources(datatypes, Len(sources))
    THEN Raise(ValueError, MsgOneMainFault(Len(sources)))
    ELSE LET patch_length_m == patch_length * km
             patch_width_m == patch_width * km
             counts == PatchCounts(sources, extension_width,
                                   extension_length,
                                   patch_width_m, patch_length_m)
             ordering == FaultOrdering(counts.npls, counts.npws,
                                       patch_length, patch_width)
             registered ==
                 RegisterSources(
                     FaultGeometry(datatypes, varnames, ordering), 0,
                     sources, datatypes, varnames, extension_width,
                     extension_length, patch_width_m, patch_length_m)
         IN  IF ~registered.ret.ok THEN registered.ret
             ELSE Return(registered.self)

(***************************************************************************)
(* The start times of the rupture.  Velocities are whole numbers, a        *)
(* slowness is a whole number of time ticks per tick of length, times are  *)
(* whole time ticks.  get_subfault_starttimes prepares the arguments of    *)
(* fast_sweep.get_rupture_times_numpy; the solver itself follows section   *)
(* 4.6 of the specification, with the one grid spacing the call hands it.  *)
(***************************************************************************)
\* +infinity of the floating point numbers.
Infinity == 1000000

\* The time ticks a rupture of velocity 1 takes for one tick of length.
TimeScale == 2

\* 1. / v for one velocity: 1. / inf is 0.
ReciprocalOfAbs(v) ==
    IF v = Infinity THEN 0 ELSE IF v < 0 THEN TimeScale \div (-v)
    ELSE TimeScale \div v

ReciprocalForgotten(v) == IF v = Infinity THEN 0 ELSE TimeScale * v

Reciprocal(v) == IF v = Infinity THEN 0 ELSE TimeScale \div v

\* The cells (dip index, strike index) of a grid of npw rows and npl columns.
Cells(npw, npl) == (0..(npw - 1)) \X (0..(npl - 1))

\* rupture_velocities.reshape((npw, npl)): row-major, a ValueError when the
\* sizes differ.
reshape(array, npw, npl) ==
    IF Len(array) # npw * npl
    THEN Raise(ValueError, "cannot reshape array")
    ELSE Return([c \in Cells(npw, npl) |-> array[c[1] * npl + c[2] + 1]])

\* n_patch_strike=npl, n_patch_dip=npw
PatchNumbers(npw, npl) == [n_patch_strike |-> npl, n_patch_dip |-> npw]

\* nuc_x=nuc_strike_idx, nuc_y=nuc_dip_idx
NucleationSwapped(nuc_dip_idx, nuc_strike_idx) ==
    [nuc_x |-> nuc_dip_idx, nuc_y |-> nuc_strike_idx]

Nucleation(nuc_dip_idx, nuc_strike_idx) ==
    [nuc_x |-> nuc_strike_idx, nuc_y |-> nuc_dip_idx]

\* get_subfault_starttimes up to the call of the solver: what it raises, or
\* the arguments it hands to get_rupture_times_numpy.
starttimes_arguments(self, index, rupture_velocities, nuc_dip_idx, nuc_strike_idx) ==
    LET shp == get_subfault_discretization(self, index).ret
    IN  IF ~shp.ok THEN shp
        ELSE LET npw == shp.val[1]
                 npl == shp.val[2]
                 grid == reshape(rupture_velocities, npw, npl)
             IN  IF ~grid.ok THEN grid
                 ELSE Return(
                     [slownesses |->
                          [c \in Cells(npw, npl) |-> Reciprocal(grid.val[c])],
                      patch_size |-> self.ordering.patch_size_dip,
                      n_patch_strike |-> PatchNumbers(npw, npl).n_patch_strike,
                      n_patch_dip |-> PatchNumbers(npw, npl).n_patch_dip,
                      nuc_x |-> Nucleation(nuc_dip_idx, nuc_strike_idx).nuc_x,
                      nuc_y |-> Nucleation(nuc_dip_idx, nuc_strike_idx).nuc_y])

\* The spacing the solver has along the dip and along the strike: the call
\* gives it one spacing, self.ordering.patch_size_dip, and no other.
DipSpacing(args) == args.patch_size

StrikeSpacing(args) == args.patch_size

\* The cells of the solver's grid.
GridCells(args) == Cells(args.n_patch_dip, args.n_patch_strike)

InvalidSlowness == Raise("InvalidSlowness", None)

InvalidNucleation == Raise("InvalidNucleation", None)

\* The input errors of the solver: a slowness that is not positive, a
\* nucleation cell outside the grid.  Which one is reported when both are
\* present is left open.
InputErrors(args) ==
    (IF \E c \in DOMAIN args.slownesses : args.slownesses[c] <= 0
     THEN {InvalidSlowness} ELSE {})
    \cup
    (IF <<args.nuc_y, args.nuc_x>> \notin GridCells(args)
     THEN {InvalidNucleation} ELSE {})

\* The start offset, when none is given.
StartOffset == 0

\* All cells at +infinity, the nucleation cell at the start offset.
InitialTimes(args) ==
    [c \in GridCells(args) |->
        IF c = <<args.nuc_y, args.nuc_x>> THEN StartOffset ELSE Infinity]

\* The four sweep directions: sweep 0 and 1 go up the dip axis, sweep 0 and
\* 2 go up the strike axis.
SweepCell(args, direction, cursor) ==
    LET i == cursor \div args.n_patch_strike
        j == cursor % args.n_patch_strike
    IN  <<IF direction \in {0, 1} THEN i ELSE args.n_patch_dip - 1 - i,
          IF direction \in {0, 2} THEN j ELSE args.n_patch_strike - 1 - j>>

\* The smaller time of the neighbours of a cell along an axis (1: dip,
\* 2: strike); at a border there is one neighbour, on an axis of one cell
\* none.
MinNeighbour(times, cell, axis) ==
    LET before == [cell EXCEPT ![axis] = @ - 1]
        after == [cell EXCEPT ![axis] = @ + 1]
        at(c) == IF c \in DOMAIN times THEN times[c] ELSE Infinity
    IN  Min(at(before), at(after))

\* The square root of n, rounded down to a whole tick.
ISqrt(n) == CHOOSE r \in 0..n : r * r <= n /\ (r + 1) * (r + 1) > n

\* The upwind update of a cell of slowness f on a grid of spacing h whose
\* neighbour minima are a and b: the one-dimensional update when the axes
\* are inconsistent, the root of the local quadratic otherwise.
Candidate(a, b, f, h) ==
    IF a = Infinity /\ b = Infinity THEN Infinity
    ELSE IF a = Infinity THEN b + f * h
    ELSE IF b = Infinity THEN a + f * h
    ELSE IF a - b >= f * h \/ b - a >= f * h THEN Min(a, b) + f * h
    ELSE (a + b + ISqrt(2 * f * h * f * h - (a - b) * (a - b))) \div 2

\* The times after the update of one cell: the nucleation cell is left
\* out, another cell takes the smaller of its time and the candidate.
UpwindOverwrite(args, times, cell) ==
    [times EXCEPT ![cell] =
        Candidate(MinNeighbour(times, cell, 1),
                  MinNeighbour(times, cell, 2),
                  args.slownesses[cell], args.patch_size)]

Upwind(args, times, cell) ==
    IF cell = <<args.nuc_y, args.nuc_x>> THEN times
    ELSE [times EXCEPT ![cell] =
             Min(@, Candidate(MinNeighbour(times, cell, 1),
                              MinNeighbour(times, cell, 2),
                              args.slownesses[cell], args.patch_size))]

\* The largest change of a cell between two grids of times.
MaxChange(old, new) ==
    LET changes == {old[c] - new[c] : c \in DOMAIN old}
    IN  CHOOSE m \in changes : \A k \in changes : k <= m

\* The tolerance of the convergence test: below one tick.
Tolerance == 1

ConvergedNever(change) == FALSE

Converged(change) == change < Tolerance

(***************************************************************************)
(* The inputs of the model.                                                *)
(***************************************************************************)
\* The datatypes and components of a geometry.  In the second one the key
\* strings of (geodetic, insar_uparr) and (geodetic_insar, uparr) coincide.
NameConfigs ==
    {[datatypes |-> <<"geodetic", "seismic">>,
      components |-> <<"uparr", "uperp">>],
     [datatypes |-> <<"geodetic", "geodetic_insar">>,
      components |-> <<"insar_uparr", "uparr">>]}

\* A name no geometry holds.
UnknownName == "polarity"

NameArgs(list) == {list[k] : k \in 1..Len(list)} \cup {UnknownName, None}

IndexArgs == -1..MaxSub

\* A list of n extended sources, each one a value of its own; batch tells
\* the lists of different setup calls apart.
SourceBatches == {"a", "b"}

SourceList(batch, n) == [i \in 1..n |-> [batch |-> batch, sub |-> i - 1]]

\* Cell sizes (strike, dip) in ticks.
PatchSizes == {<<2, 2>>, <<4, 2>>}

\* Shapes (npw, npl) of a subfault.
GeometryShapes == {<<1, MaxDim>>, <<MaxDim, MaxDim>>}

\* A table of more than 2^15 patches, along the strike and along the dip.
WideDim == Int16Max + 2

OrderingShapes ==
    {<<npw, npl>> : npw \in 1..MaxDim, npl \in 1..MaxDim}
        \cup {<<1, WideDim>>, <<WideDim, 1>>}

ShapeLists(shapes) == UNION {[1..n -> shapes] : n \in 1..MaxSub}

npls_of(shapelist) == [i \in 1..Len(shapelist) |-> shapelist[i][2]]

npws_of(shapelist) == [i \in 1..Len(shapelist) |-> shapelist[i][1]]

\* The indexes along an axis of n cells that are looked up: around both ends.
ProbeIdx(n) == {-1, 0, 1, n - 1, n} \cup (0..Min(n, MaxDim))

\* The positions along an axis of n cells of size cell_size that are
\* converted: the centres of the cells of ProbeIdx, and their borders.
ProbePositions(n, cell_size) ==
    UNION {{k * cell_size, k * cell_size + cell_size \div 2} : k \in ProbeIdx(n)}

\* Shapes (npw, npl) a FaultOrdering is constructed with by hand, a
\* dimension of no patches included.
DegenerateShapes == {<<npw, npl>> : npw \in 0..1, npl \in 0..1}

\* The source planes given to discretize_sources: of two lengths and two
\* rakes.
SourcePlanes ==
    {[length |-> l, width |-> 4000, rake |-> r, slip |-> 0] :
        l \in {10000, 14000}, r \in {10, 20}}

SourceLists == UNION {[1..n -> SourcePlanes] : n \in 1..MaxSub}

\* The extension factors (width, length), in hundredths.
Extensions == {<<0, 0>>, <<10, 10>>}

\* The patch sizes (patch_width, patch_length), in km.
DiscretizeSizes == {<<4, 4>>, <<4, 6>>}

DatatypeLists == {<<"geodetic">>, <<"seismic">>, <<"geodetic", "seismic">>}

\* The default of varnames is [''].
VarnameLists == {<<"uparr">>, <<"uparr", "uperp">>, <<"">>}

\* The grids (npw, npl) the start times are computed on: one cell, one row,
\* a square.
SolverShapes == {<<1, 1>>, <<1, MaxDim + 1>>, <<MaxDim, MaxDim>>}

\* One subfault of each shape, and a geometry of two subfaults.
SolverShapeLists ==
    {<<shape>> : shape \in SolverShapes} \cup {<<<<1, 1>>, <<1, MaxDim>>>>}

\* The iteration caps the solver is run with.
MaxIterations == 2

Caps == 1..MaxIterations

\* Velocities of n patches: uniform, one patch faster, and fields the
\* solver must refuse: a negative velocity, an infinite velocity.  The last
\* one has a patch too many.
VelocityFields(n) ==
    {[i \in 1..n |-> v] : v \in {1, 2}}
        \cup {[i \in 1..n |-> IF i = k THEN w ELSE 1] :
                 k \in {1, n}, w \in {2, -1, Infinity}}
        \cup {[i \in 1..(n + 1) |-> 1]}

\* Velocities of n patches for point2starttimes.
PointVelocityFields(n) ==
    {[i \in 1..n |-> 1], [i \in 1..n |-> IF i = n THEN -1 ELSE 1]}

\* The shape of the subfault a call with index works on; of one cell when
\* there is none.
ShapeAt(self, index) ==
    LET pm == PyGetItem(self.ordering.vmap, index)
    IN  IF pm.ok /\ index <= nsubfaults(self) - 1 THEN pm.val.shp
        ELSE <<1, 1>>

\* The calls (index, rupture_velocities, nuc_dip_idx, nuc_strike_idx) of
\* get_subfault_starttimes that are made.
StarttimesProbes(self) ==
    UNION {{<<index, velocities, nuc_dip_idx, nuc_strike_idx>> :
               velocities \in VelocityFields(
                   ShapeAt(self, index)[1] * ShapeAt(self, index)[2]),
               nuc_dip_idx \in ProbeIdx(ShapeAt(self, index)[1]),
               nuc_strike_idx \in ProbeIdx(ShapeAt(self, index)[2])} :
           index \in -1..nsubfaults(self)}

\* A position so far off the fault that its index does not fit int16.
FarPosition(cell_size) == (2 ^ IndexBits) * cell_size + cell_size \div 2

\* The points (index, velocities, nucleation_dip, nucleation_strike) of
\* point2starttimes that are made.
PointProbes(self) ==
    UNION {{<<index, velocities, nucleation_dip, nucleation_strike>> :
               velocities \in PointVelocityFields(
                   ShapeAt(self, index)[1] * ShapeAt(self, index)[2]),
               nucleation_dip \in ProbePositions(
                   ShapeAt(self, index)[1], self.ordering.patch_size_dip),
               nucleation_strike \in ProbePositions(
                   ShapeAt(self, index)[2], self.ordering.patch_size_strike)
                   \cup {FarPosition(self.ordering.patch_size_strike)}} :
           index \in 0..nsubfaults(self)}

(***************************************************************************)
(* The state machine: a geometry is built, then set up and read, one call  *)
(* at a time.  The program does not store history: it is kept to state     *)
(* what "already set up" means.                                            *)
(***************************************************************************)
\* No solver runs.
NoSolver == [status |-> "off"]

Built(names, shapelist, sizes) ==
    /\ fault = FaultGeometry(
           names.datatypes, names.components,
           FaultOrdering(npls_of(shapelist), npws_of(shapelist),
                         sizes[1], sizes[2]))
    /\ pc = "FaultGeometry"
    /\ call = [op |-> "FaultGeometry",
               npls |-> npls_of(shapelist), npws |-> npws_of(shapelist)]
    /\ rv = Return(None)
    /\ history = {}
    /\ solver = NoSolver

Init ==
    \E names \in NameConfigs, shapelist \in ShapeLists(GeometryShapes) :
        Built(names, shapelist, <<4, 2>>)

InitOrdering ==
    \E shapelist \in ShapeLists(OrderingShapes), sizes \in PatchSizes :
        Built([datatypes |-> <<"geodetic">>, components |-> <<"uparr">>],
              shapelist, sizes)

NoCall == [op |-> "none"]

\* A call c ends with outcome o.
Ends(c, o) ==
    /\ pc' = c.op
    /\ call' = c
    /\ rv' = o.ret
    /\ fault' = o.self
    /\ solver' = NoSolver

\* The caller has taken the result.
Done ==
    /\ pc \notin {"idle", "fast_sweep"}
    /\ pc' = "idle"
    /\ call' = NoCall
    /\ rv' = Return(None)
    /\ UNCHANGED <<fault, history, solver>>

SetupSubfaults ==
    /\ pc = "idle"
    /\ \E datatype \in NameArgs(fault.datatypes),
          component \in NameArgs(fault.components),
          batch \in SourceBatches,
          n \in {m \in {nsubfaults(fault) - 1, nsubfaults(fault),
                        nsubfaults(fault) + 1} : m >= 0},
          replace \in BOOLEAN :
           LET o == setup_subfaults(
                        fault, datatype, component, SourceList(batch, n), replace)
           IN  /\ Ends([op |-> "setup_subfaults", datatype |-> datatype,
                        component |-> component,
                        ext_sources |-> SourceList(batch, n),
                        replace |-> replace], o)
               /\ history' = IF o.ret.ok
                             THEN history \cup {<<datatype, component>>}
                             ELSE history

GetSubfault ==
    /\ pc = "idle"
    /\ \E index \in IndexArgs,
          datatype \in NameArgs(fault.datatypes),
          component \in NameArgs(fault.components) :
           /\ Ends([op |-> "get_subfault", index |-> index,
                    datatype |-> datatype, component |-> component],
                   get_subfault(fault, index, datatype, component))
           /\ UNCHANGED history

GetSubfaultPatches ==
    /\ pc = "idle"
    /\ \E index \in IndexArgs,
          datatype \in NameArgs(fault.datatypes),
          component \in NameArgs(fault.components) :
           /\ Ends([op |-> "get_subfault_patches", index |-> index,
                    datatype |-> datatype, component |-> component],
                   get_subfault_patches(fault, index, datatype, component))
           /\ UNCHANGED history

GetAllPatches ==
    /\ pc = "idle"
    /\ \E datatype \in NameArgs(fault.datatypes),
          component \in NameArgs(fault.components) :
           /\ Ends([op |-> "get_all_patches",
                    datatype |-> datatype, component |-> component],
                   get_all_patches(fault, datatype, component))
           /\ UNCHANGED history

GetPatchIndexes ==
    /\ pc = "idle"
    /\ \E index \in IndexArgs :
           /\ Ends([op |-> "get_patch_indexes", index |-> index],
                   get_patch_indexes(fault, index))
           /\ UNCHANGED history

GetSubfaultDiscretization ==
    /\ pc = "idle"
    /\ \E index \in IndexArgs :
           /\ Ends([op |-> "get_subfault_discretization", index |-> index],
                   get_subfault_discretization(fault, index))
           /\ UNCHANGED history

\* The lookups (index, dipidx, strikeidx) that are made.
PatchmapProbes(self) ==
    UNION {{<<index, dipidx, strikeidx>> :
               dipidx \in ProbeIdx(self.ordering.vmap[index + 1].shp[1]),
               strikeidx \in ProbeIdx(self.ordering.vmap[index + 1].shp[2])} :
           index \in 0..(nsubfaults(self) - 1)}

Patchmap ==
    /\ pc = "idle"
    /\ \E probe \in PatchmapProbes(fault) :
           /\ Ends([op |-> "patchmap", index |-> probe[1],
                    dipidx |-> probe[2], strikeidx |-> probe[3]],
                   patchmap(fault, probe[1], probe[2], probe[3]))
           /\ UNCHANGED history

Spatchmap ==
    /\ pc = "idle"
    /\ \E probe \in PatchmapProbes(fault) :
           /\ Ends([op |-> "spatchmap", index |-> probe[1],
                    dipidx |-> probe[2], strikeidx |-> probe[3]],
                   spatchmap(fault, probe[1], probe[2], probe[3]))
           /\ UNCHANGED history

\* The conversions (positions_dip, positions_strike) that are made.
PositionProbes(self) ==
    UNION {ProbePositions(self.ordering.vmap[index + 1].shp[1],
                          self.ordering.patch_size_dip)
             \X ProbePositions(self.ordering.vmap[index + 1].shp[2],
                               self.ordering.patch_size_strike) :
           index \in 0..(nsubfaults(self) - 1)}

\* The conversions with each of their outcomes.
PositionOutcomes(self) ==
    UNION {{<<probe[1], probe[2], backend, o>> :
               o \in fault_locations2idxs(self, probe[1], probe[2], backend)} :
           probe \in PositionProbes(self), backend \in available_backends}

FaultLocations2Idxs ==
    /\ pc = "idle"
    /\ \E po \in PositionOutcomes(fault) :
           /\ Ends([op |-> "fault_locations2idxs",
                    positions_dip |-> po[1],
                    positions_strike |-> po[2],
                    backend |-> po[3]], po[4])
           /\ UNCHANGED history

Next ==
    \/ Done
    \/ SetupSubfaults
    \/ GetSubfault
    \/ GetSubfaultPatches
    \/ GetAllPatches
    \/ GetPatchIndexes
    \/ GetSubfaultDiscretization
    \/ Patchmap

Spec == Init /\ [][Next]_vars

NextOrdering ==
    \/ Done
    \/ GetPatchIndexes
    \/ GetSubfaultDiscretization
    \/ Patchmap
    \/ Spatchmap
    \/ FaultLocations2Idxs

SpecOrdering == InitOrdering /\ [][NextOrdering]_vars

\* A geometry constructed by hand, then discretize_sources until the caller
\* holds a geometry with sources: the geometry it returns replaces the one
\* held.
InitDiscretize ==
    \E shapelist \in ShapeLists(DegenerateShapes) :
        Built([datatypes |-> <<"geodetic">>, components |-> <<"uparr">>],
              shapelist, <<4, 4>>)

\* The (datatype, component) pairs discretize_sources sets up.
AllPairs(datatypes, varnames) ==
    {<<datatypes[i], varnames[j]>> :
        i \in 1..Len(datatypes), j \in 1..Len(varnames)}

DiscretizeSources ==
    /\ pc = "idle"
    /\ DOMAIN fault.ext_sources = {}
    /\ \E sources \in SourceLists, extension \in Extensions,
          sizes \in DiscretizeSizes, datatypes \in DatatypeLists,
          varnames \in VarnameLists :
           LET r == discretize_sources(
                        sources, extension[1], extension[2],
                        sizes[1], sizes[2], datatypes, varnames)
           IN  /\ Ends([op |-> "discretize_sources", sources |-> sources,
                        extension_width |-> extension[1],
                        extension_length |-> extension[2],
                        patch_width |-> sizes[1],
                        patch_length |-> sizes[2],
                        datatypes |-> datatypes, varnames |-> varnames],
                       Outcome(r, IF r.ok THEN r.val ELSE fault))
               /\ history' = IF r.ok THEN AllPairs(datatypes, varnames)
                             ELSE history

NextDiscretize ==
    \/ Done
    \/ DiscretizeSources

SpecDiscretize == InitDiscretize /\ [][NextDiscretize]_vars

\* A geometry in square-patch-only mode, then start times are computed on
\* it: a call that passes the input checks runs the solver one cell update
\* at a time and ends when the solver returns.
InitSolver ==
    \E shapelist \in SolverShapeLists, sizes \in PatchSizes :
        Built([datatypes |-> <<"seismic">>, components |-> <<"uparr">>],
              shapelist, sizes)

\* The call c has prepared the outcome a: it ends with what a raises or
\* with an input error of the solver, or the solver starts on a's arguments
\* with an iteration cap.
StartSolver(c, a, cap) ==
    IF ~a.ok THEN Ends(c, Outcome(a, fault))
    ELSE IF InputErrors(a.val) # {}
    THEN \E e \in InputErrors(a.val) : Ends(c, Outcome(e, fault))
    ELSE /\ pc' = "fast_sweep"
         /\ call' = c
         /\ rv' = Return(None)
         /\ fault' = fault
         /\ solver' = [status |-> "sweeping",
                       args |-> a.val,
                       cap |-> cap,
                       start_times |-> InitialTimes(a.val),
                       old |-> InitialTimes(a.val),
                       iteration |-> 1,
                       direction |-> 0,
                       cursor |-> 0]

GetSubfaultStarttimes ==
    /\ pc = "idle"
    /\ \E probe \in StarttimesProbes(fault), cap \in Caps :
           /\ StartSolver(
                  [op |-> "get_subfault_starttimes", index |-> probe[1],
                   rupture_velocities |-> probe[2],
                   nuc_dip_idx |-> probe[3], nuc_strike_idx |-> probe[4]],
                  starttimes_arguments(
                      fault, probe[1], probe[2], probe[3], probe[4]),
                  cap)
           /\ UNCHANGED history

\* The calls of point2starttimes with the indexes fault_locations2idxs gives
\* for the nucleation point.
PointCalls(self) ==
    UNION {{[op |-> "point2starttimes", index |-> probe[1],
             velocities |-> probe[2], nucleation_dip |-> probe[3],
             nucleation_strike |-> probe[4],
             nuc_dip_idx |-> o.ret.val[1],
             nuc_strike_idx |-> o.ret.val[2]] :
               o \in fault_locations2idxs(self, probe[3], probe[4], "numpy")} :
           probe \in PointProbes(self)}

Point2Starttimes ==
    /\ pc = "idle"
    /\ \E c \in PointCalls(fault), cap \in Caps :
           /\ StartSolver(
                  c,
                  starttimes_arguments(
                      fault, c.index, c.velocities,
                      c.nuc_dip_idx, c.nuc_strike_idx),
                  cap)
           /\ UNCHANGED history

\* The number of cells of the solver's grid.
GridSize == solver.args.n_patch_dip * solver.args.n_patch_strike

\* One cell update of a sweep; after the last cell of a sweep the next
\* direction follows.
Sweep ==
    /\ pc = "fast_sweep"
    /\ solver.cursor < GridSize
    /\ solver' =
          [solver EXCEPT
              !.start_times =
                  Upwind(solver.args, @,
                         SweepCell(solver.args, solver.direction,
                                   solver.cursor)),
              !.cursor = IF @ + 1 = GridSize /\ solver.direction < 3
                         THEN 0 ELSE @ + 1,
              !.direction = IF solver.cursor + 1 = GridSize /\ @ < 3
                            THEN @ + 1 ELSE @]
    /\ UNCHANGED <<fault, pc, call, rv, history>>

\* The end of a cycle of four sweeps: the solver returns when no cell has
\* changed by the tolerance or when the cap is reached, with a flag that
\* tells which; otherwise the next cycle follows.
EndCycle ==
    /\ pc = "fast_sweep"
    /\ solver.cursor = GridSize
    /\ LET change == MaxChange(solver.old, solver.start_times)
       IN  IF Converged(change) \/ solver.iteration >= solver.cap
           THEN Ends(call,
                     Outcome(Return([start_times |-> solver.start_times,
                                     converged |-> Converged(change)]),
                             fault))
           ELSE /\ solver' = [solver EXCEPT !.old = solver.start_times,
                                            !.iteration = @ + 1,
                                            !.direction = 0,
                                            !.cursor = 0]
                /\ UNCHANGED <<fault, pc, call, rv>>
    /\ UNCHANGED history

NextSolver ==
    \/ Done
    \/ GetSubfaultStarttimes
    \/ Point2Starttimes
    \/ Sweep
    \/ EndCycle

SpecSolver == InitSolver /\ [][NextSolver]_vars

\* The solver is a loop of the calling thread: once called it runs on.
SpecSolverFair == SpecSolver /\ WF_vars(Sweep) /\ WF_vars(EndCycle)

(***************************************************************************)
(* The claims about FaultOrdering and positions2idxs, under SpecOrdering.  *)
(***************************************************************************)
\* The half-open ranges of two slices share no index.
SlicesDisjoint(a, b) ==
    \/ a.start >= a.stop
    \/ b.start >= b.stop
    \/ a.stop <= b.start
    \/ b.stop <= a.start

RECURSIVE SumOfCounts(_, _)
SumOfCounts(vmap, n) ==
    IF n = 0 THEN 0
    ELSE SumOfCounts(vmap, n - 1) + vmap[n].shp[1] * vmap[n].shp[2]

\* C1: the flat slices of the subfaults partition the flat parameter vector.
\* Slice 0 starts at 0, slice i+1 starts where slice i stops, slice i has
\* n_strike_i * n_dip_i indexes, the slices are pairwise disjoint, and
\* npatches is the stop of the last slice and the sum of the patch counts;
\* there is one slice per pair of counts given, and get_patch_indexes
\* returns it.
C1_SlicesPartition ==
    LET vmap == fault.ordering.vmap
        n == Len(vmap)
    IN  /\ n >= 1
        /\ vmap[1].slc.start = 0
        /\ \A i \in 1..(n - 1) : vmap[i + 1].slc.start = vmap[i].slc.stop
        /\ \A i \in 1..n :
              /\ vmap[i].slc.stop - vmap[i].slc.start
                     = vmap[i].shp[1] * vmap[i].shp[2]
              /\ vmap[i].npatches = vmap[i].shp[1] * vmap[i].shp[2]
              /\ vmap[i].count = i - 1
        /\ \A i \in 1..n : \A j \in (i + 1)..n :
              SlicesDisjoint(vmap[i].slc, vmap[j].slc)
        /\ fault.ordering.npatches = vmap[n].slc.stop
        /\ fault.ordering.npatches = SumOfCounts(vmap, n)
        /\ call.op = "FaultGeometry" =>
              /\ n = Len(call.npls)
              /\ \A i \in 1..n : vmap[i].shp = <<call.npws[i], call.npls[i]>>
        /\ (pc # "idle" /\ call.op = "get_patch_indexes"
               /\ 0 <= call.index /\ call.index < n) =>
              rv = Return(vmap[call.index + 1].slc)

\* C1 witness: the slice of a second subfault, which starts after the
\* patches of the first one, has been looked up.
C1_Witness ==
    /\ pc # "idle"
    /\ call.op = "get_patch_indexes"
    /\ call.index = 1
    /\ rv.ok
    /\ rv.val.start > 0
    /\ rv.val.stop = fault.ordering.npatches

\* C2: for each subfault, patchmap on the cells 0 <= dipidx < n_dip,
\* 0 <= strikeidx < n_strike is a bijection onto 0..patch_count-1: every
\* index of the range is hit, and no two cells share an index.
C2_PatchmapBijection ==
    \A index \in 0..(nsubfaults(fault) - 1) :
        LET pm == fault.ordering.vmap[index + 1]
            image == {patchmap(fault, index, d, s).ret.val :
                         d \in 0..(pm.shp[1] - 1), s \in 0..(pm.shp[2] - 1)}
        IN  /\ image = 0..(pm.npatches - 1)
            /\ Cardinality(image) = pm.shp[1] * pm.shp[2]

\* The cell whose centre a position is, along an axis of cells of cell_size.
IsCentre(position, cell_size) ==
    (position - cell_size \div 2) % cell_size = 0

CentreOf(position, cell_size) == (position - cell_size \div 2) \div cell_size

\* (d, s) is a cell of some subfault.
ValidCell(d, s) ==
    \E i \in 1..nsubfaults(fault) :
        /\ 0 <= d /\ d < fault.ordering.vmap[i].shp[1]
        /\ 0 <= s /\ s < fault.ordering.vmap[i].shp[2]

\* C3: the positions of the centre of a valid cell (d, s), converted with
\* the cell sizes of the two axes, give (d, s).
C3_CentreRoundTrip ==
    (/\ pc # "idle"
     /\ call.op = "fault_locations2idxs"
     /\ IsCentre(call.positions_dip, fault.ordering.patch_size_dip)
     /\ IsCentre(call.positions_strike, fault.ordering.patch_size_strike)
     /\ ValidCell(CentreOf(call.positions_dip, fault.ordering.patch_size_dip),
                  CentreOf(call.positions_strike,
                           fault.ordering.patch_size_strike)))
    => /\ rv.ok
       /\ rv.val = <<CentreOf(call.positions_dip,
                               fault.ordering.patch_size_dip),
                      CentreOf(call.positions_strike,
                               fault.ordering.patch_size_strike)>>

\* The cell (d, s) is a cell of a table of shape shp.
InTable(shp, d, s) == 0 <= d /\ d < shp[1] /\ 0 <= s /\ s < shp[2]

\* C19 as claimed: spatchmap returns the global flat index: for a subfault
\* index and a cell of its table, the start of the subfault's slice plus the
\* index patchmap returns.
C19_SpatchmapIsGlobal ==
    (/\ pc = "spatchmap"
     /\ call.index \in 0..(nsubfaults(fault) - 1)
     /\ InTable(fault.ordering.vmap[call.index + 1].shp,
                call.dipidx, call.strikeidx))
    => /\ rv.ok
       /\ rv.val
            = get_patch_indexes(fault, call.index).ret.val.start
                + patchmap(fault, call.index,
                           call.dipidx, call.strikeidx).ret.val

\* C19, amended: spatchmap returns the entry of the subfault's own index
\* table, the index patchmap returns for the same subfault and cell; the
\* start of the subfault's slice is not added.
C19_SpatchmapIsLocal ==
    (/\ pc = "spatchmap"
     /\ call.index \in 0..(nsubfaults(fault) - 1)
     /\ InTable(fault.ordering.vmap[call.index + 1].shp,
                call.dipidx, call.strikeidx))
    => rv = patchmap(fault, call.index, call.dipidx, call.strikeidx).ret

\* C19 witness: the first cell of a second subfault, whose slice starts
\* after the patches of the first one, has been looked up and is 0.
C19_Witness ==
    /\ pc = "spatchmap"
    /\ call.index = 1
    /\ call.dipidx = 0
    /\ call.strikeidx = 0
    /\ fault.ordering.vmap[2].slc.start > 0
    /\ rv.ok
    /\ rv.val = 0

(***************************************************************************)
(* The claims about FaultGeometry, under Spec.                             *)
(***************************************************************************)
\* The error kinds of the specification, as the code raises them.
UnknownDatatype == Raise(TypeError, MsgDatatype)

UnknownComponent == Raise(TypeError, MsgComponent)

UnknownSubfault == Raise(TypeError, MsgIndex)

NotConfigured == Raise(FaultGeometryError, MsgNotDefined)

DuplicateSetup == Raise(FaultGeometryError, MsgAlreadySpecified)

SetupStep == pc = "idle" /\ pc' # "idle" /\ call'.op = "setup_subfaults"

ReadOps ==
    {"get_subfault", "get_subfault_patches", "get_all_patches",
     "get_patch_indexes", "get_subfault_discretization", "patchmap"}

ReadStep == pc = "idle" /\ pc' # "idle" /\ call'.op \in ReadOps

Names(list) == {list[k] : k \in 1..Len(list)}

Pairs == Names(fault.datatypes) \X Names(fault.components)

Subfaults == 0..(nsubfaults(fault) - 1)

\* What the read call c returns on the geometry self.
Rerun(c, self) ==
    CASE c.op = "get_subfault" ->
             get_subfault(self, c.index, c.datatype, c.component)
      [] c.op = "get_subfault_patches" ->
             get_subfault_patches(self, c.index, c.datatype, c.component)
      [] c.op = "get_all_patches" ->
             get_all_patches(self, c.datatype, c.component)
      [] c.op = "get_patch_indexes" -> get_patch_indexes(self, c.index)
      [] c.op = "get_subfault_discretization" ->
             get_subfault_discretization(self, c.index)
      [] c.op = "patchmap" ->
             patchmap(self, c.index, c.dipidx, c.strikeidx)

\* C4: setup_subfaults without replace for a pair that a setup call has
\* succeeded for fails (with DuplicateSetup when the list has nsubfaults
\* sources, as setup requires) and leaves every stored source as it was.
C4_DuplicateSetupFails ==
    [][(/\ SetupStep
        /\ ~call'.replace
        /\ <<call'.datatype, call'.component>> \in history)
       => /\ ~rv'.ok
          /\ rv'.exc = FaultGeometryError
          /\ Len(call'.ext_sources) = nsubfaults(fault)
                => rv' = DuplicateSetup
          /\ fault' = fault
          /\ history' = history]_vars

\* C4 witness: a setup call has failed with DuplicateSetup while two pairs
\* are set up.
C4_Witness ==
    /\ pc # "idle"
    /\ call.op = "setup_subfaults"
    /\ ~call.replace
    /\ <<call.datatype, call.component>> \in history
    /\ Cardinality(history) >= 2
    /\ rv = DuplicateSetup

\* C5: setup_subfaults with replace for a pair that is set up succeeds;
\* afterwards get_subfault returns the new source for every subfault of the
\* pair, and the sources of every other pair that is set up are unchanged.
C5_ReplaceKeepsOtherPairs ==
    [][(/\ SetupStep
        /\ call'.replace
        /\ <<call'.datatype, call'.component>> \in history
        /\ Len(call'.ext_sources) = nsubfaults(fault))
       => /\ rv'.ok
          /\ \A i \in Subfaults :
                get_subfault(fault', i, call'.datatype, call'.component).ret
                    = Return(call'.ext_sources[i + 1])
          /\ \A p \in history \ {<<call'.datatype, call'.component>>} :
                \A i \in Subfaults :
                    get_subfault(fault', i, p[1], p[2]).ret
                        = get_subfault(fault, i, p[1], p[2]).ret]_vars

\* The subfaults a pair has an entry for.
EntriesOf(datatype, component) ==
    {i \in Subfaults :
        source_key_of(datatype, component, i) \in DOMAIN fault.ext_sources}

\* C6: every stored entry is the entry of a pair of the geometry and of a
\* subfault index 0..nsubfaults-1, every pair that has a stored entry has
\* one for each of these indexes, and a setup call whose list has not
\* nsubfaults sources fails.
C6_NoPartialPair ==
    /\ DOMAIN fault.ext_sources
           \subseteq {source_key_of(p[1], p[2], i) :
                          p \in Pairs, i \in Subfaults}
    /\ \A p \in Pairs :
          EntriesOf(p[1], p[2]) = {} \/ EntriesOf(p[1], p[2]) = Subfaults
    /\ (/\ pc # "idle"
        /\ call.op = "setup_subfaults"
        /\ Len(call.ext_sources) # nsubfaults(fault))
       => ~rv.ok

\* C6 witness: a setup call with one source too few has failed on a
\* geometry of two subfaults that holds a pair.
C6_Witness ==
    /\ pc # "idle"
    /\ call.op = "setup_subfaults"
    /\ nsubfaults(fault) = 2
    /\ Len(call.ext_sources) = 1
    /\ rv = Raise(FaultGeometryError, MsgSetupMismatch)
    /\ history # {}

\* get_subfault was called with a name of the geometry or with none.
KnownOrOmitted(name, list) == name = None \/ name \in Names(list)

\* C7 as claimed: get_subfault fails with UnknownSubfault whenever
\* index >= nsubfaults; with a valid index it fails with UnknownDatatype for
\* a datatype the geometry has not, with UnknownComponent for a component it
\* has not, and with NotConfigured for a triple that was never set up.
C7_ErrorKindsAsClaimed ==
    (pc # "idle" /\ call.op = "get_subfault") =>
        /\ call.index >= nsubfaults(fault) => rv = UnknownSubfault
        /\ (call.index \in Subfaults
               /\ ~KnownOrOmitted(call.datatype, fault.datatypes))
              => rv = UnknownDatatype
        /\ (call.index \in Subfaults
               /\ ~KnownOrOmitted(call.component, fault.components))
              => rv = UnknownComponent
        /\ (/\ call.index \in Subfaults
            /\ KnownOrOmitted(call.datatype, fault.datatypes)
            /\ KnownOrOmitted(call.component, fault.components)
            /\ source_key_of(assign_datatype(fault, call.datatype),
                             assign_component(fault, call.component),
                             call.index) \notin DOMAIN fault.ext_sources)
              => rv = NotConfigured

\* C7 amended: the checks run in the order datatype, component, index,
\* entry.  get_subfault fails with UnknownDatatype for a datatype the
\* geometry has not; else with UnknownComponent for a component it has not;
\* else with UnknownSubfault when index >= nsubfaults; else, with a valid
\* index, with NotConfigured when no source is stored under the key of the
\* triple, and it returns the stored source otherwise.
\* The four errors differ from one another.
C7_ErrorKindsInCheckOrder ==
    /\ Cardinality({UnknownDatatype, UnknownComponent,
                    UnknownSubfault, NotConfigured}) = 4
    /\ (pc # "idle" /\ call.op = "get_subfault") =>
          LET key == source_key_of(assign_datatype(fault, call.datatype),
                                   assign_component(fault, call.component),
                                   call.index)
          IN  IF ~KnownOrOmitted(call.datatype, fault.datatypes)
              THEN rv = UnknownDatatype
              ELSE IF ~KnownOrOmitted(call.component, fault.components)
              THEN rv = UnknownComponent
              ELSE IF call.index >= nsubfaults(fault)
              THEN rv = UnknownSubfault
              ELSE IF call.index \in Subfaults
                      /\ key \notin DOMAIN fault.ext_sources
              THEN rv = NotConfigured
              ELSE call.index \in Subfaults
                      => rv = Return(fault.ext_sources[key])

\* C7 witness: a lookup with an index >= nsubfaults and an unknown datatype
\* has failed with UnknownDatatype.
C7_Witness ==
    /\ pc # "idle"
    /\ call.op = "get_subfault"
    /\ call.index >= nsubfaults(fault)
    /\ call.datatype = UnknownName
    /\ rv = UnknownDatatype

\* C8: get_subfault, get_subfault_patches and get_all_patches called
\* without a datatype (a component) return or raise what the same call
\* with the first datatype (component) of the geometry does.
C8_OmittedIsFirst ==
    (/\ pc # "idle"
     /\ call.op \in {"get_subfault", "get_subfault_patches", "get_all_patches"}
     /\ (call.datatype = None \/ call.component = None))
    => rv = Rerun(
                 [call EXCEPT
                     !.datatype =
                         IF @ = None THEN fault.datatypes[1] ELSE @,
                     !.component =
                         IF @ = None THEN fault.components[1] ELSE @],
                 fault).ret

\* C8 witness: a lookup without a datatype has returned a source while the
\* other datatype of the geometry has no entry.
C8_Witness ==
    /\ pc # "idle"
    /\ call.op = "get_subfault"
    /\ call.datatype = None
    /\ call.component # None
    /\ rv.ok
    /\ Len(fault.datatypes) = 2
    /\ EntriesOf(fault.datatypes[2], call.component) = {}

\* C9: get_all_patches returns the patches of the subfaults in the order of
\* their indexes: the patches of subfault i are at the places
\* get_patch_indexes(i) of the list, and the list has npatches patches.
C9_AllPatchesInSliceOrder ==
    (pc # "idle" /\ call.op = "get_all_patches" /\ rv.ok) =>
        /\ Len(rv.val) = npatches(fault)
        /\ \A i \in Subfaults :
              LET slc == get_patch_indexes(fault, i).ret.val
                  one == get_subfault_patches(
                             fault, i, call.datatype, call.component).ret
              IN  /\ one.ok
                  /\ SubSeq(rv.val, slc.start + 1, slc.stop) = one.val

\* C9 witness: all patches of two subfaults of different patch counts have
\* been returned.
C9_Witness ==
    /\ pc # "idle"
    /\ call.op = "get_all_patches"
    /\ rv.ok
    /\ nsubfaults(fault) = 2
    /\ fault.ordering.vmap[1].npatches # fault.ordering.vmap[2].npatches

InvalidDiscretization == Raise(ValueError, MsgSquarePatches)

UnsupportedMultiSource(nsources) ==
    Raise(ValueError, MsgOneMainFault(nsources))

\* discretize_sources has ended in square-patch-only mode.
SeismicCall == pc = "discretize_sources" /\ InList("seismic", call.datatypes)

\* C11: in square-patch-only mode discretize_sources fails with
\* InvalidDiscretization when patch_length # patch_width and with
\* UnsupportedMultiSource when more than one source plane is given (the
\* patch sizes are checked first: a call that breaks both restrictions
\* fails with InvalidDiscretization); it returns no geometry then.  Without
\* 'seismic' neither error is raised.
C11_SquareModeErrors ==
    /\ (SeismicCall /\ call.patch_length # call.patch_width)
          => rv = InvalidDiscretization
    /\ (SeismicCall /\ Len(call.sources) > 1)
          => rv = IF call.patch_length # call.patch_width
                   THEN InvalidDiscretization
                   ELSE UnsupportedMultiSource(Len(call.sources))
    /\ (pc = "discretize_sources" /\ ~InList("seismic", call.datatypes))
          => rv.ok \/ rv.exc # ValueError

\* C11 witness: in square-patch-only mode a call with square patches and
\* two source planes has failed with UnsupportedMultiSource.
C11_Witness ==
    /\ SeismicCall
    /\ call.patch_length = call.patch_width
    /\ Len(call.sources) = 2
    /\ rv = UnsupportedMultiSource(2)
    /\ DOMAIN fault.ext_sources = {}

\* C12: the construction of a FaultOrdering fails when a subfault has a
\* number of patches along the strike or along the dip that is not
\* positive, and no ordering holds a subfault of no patches.
C12_NonPositiveDimensionFails ==
    /\ (pc = "FaultGeometry"
           /\ \E i \in 1..Len(call.npls) :
                  call.npls[i] <= 0 \/ call.npws[i] <= 0)
          => ~rv.ok
    /\ \A i \in 1..nsubfaults(fault) : fault.ordering.vmap[i].npatches > 0

\* C20: the source discretize_sources registers for a datatype, a slip
\* component and the input plane i has the rake of plane i plus the rake of
\* the component.
C20_RakeOfEachPlane ==
    (pc = "discretize_sources" /\ rv.ok) =>
        \A p \in AllPairs(call.datatypes, call.varnames) :
            \A i \in 1..Len(call.sources) :
                LET registered == get_subfault(fault, i - 1, p[1], p[2]).ret
                IN  /\ registered.ok
                    /\ registered.val.rake
                         = call.sources[i].rake + slip_directions[p[2]].rake

(***************************************************************************)
(* The claims about the start times, under SpecSolver and SpecSolverFair.  *)
(***************************************************************************)
\* A call that computes start times has ended.
StarttimesEnded == pc \in {"get_subfault_starttimes", "point2starttimes"}

\* The velocities the call was given.
VelocitiesOf(c) ==
    IF c.op = "point2starttimes" THEN c.velocities ELSE c.rupture_velocities

\* The call names a subfault and gives one velocity for each of its patches.
GridGiven(c) ==
    LET shp == get_subfault_discretization(fault, c.index).ret
    IN  /\ shp.ok
        /\ Len(VelocitiesOf(c)) = shp.val[1] * shp.val[2]

\* The shape (npw, npl) of the grid of the call.
GridShape(c) == get_subfault_discretization(fault, c.index).ret.val

\* A velocity gives a slowness that is not positive: it is negative or
\* infinite.
BadSlowness(c) ==
    \E i \in 1..Len(VelocitiesOf(c)) :
        VelocitiesOf(c)[i] < 0 \/ VelocitiesOf(c)[i] = Infinity

\* The nucleation cell of the call is not a cell of its grid.
BadNucleation(c) ==
    ~InTable(GridShape(c), c.nuc_dip_idx, c.nuc_strike_idx)

\* C13: for a grid of positive slownesses and a nucleation cell inside it,
\* the start times returned have the shape of the grid, the nucleation
\* cell holds the start offset 0, and every cell holds a time that is
\* finite and not negative.
C13_StartTimesFinite ==
    (/\ StarttimesEnded
     /\ GridGiven(call)
     /\ ~BadSlowness(call)
     /\ ~BadNucleation(call))
    => /\ rv.ok
       /\ DOMAIN rv.val.start_times
            = Cells(GridShape(call)[1], GridShape(call)[2])
       /\ rv.val.start_times[<<call.nuc_dip_idx, call.nuc_strike_idx>>] = 0
       /\ \A c \in DOMAIN rv.val.start_times :
             /\ rv.val.start_times[c] >= 0
             /\ rv.val.start_times[c] < Infinity

\* C13 witness: start times were returned for a grid of one row and more
\* than two columns with the nucleation in its last column.
C13_Witness ==
    /\ StarttimesEnded
    /\ rv.ok
    /\ GridShape(call)[1] = 1
    /\ GridShape(call)[2] > 2
    /\ call.nuc_strike_idx = GridShape(call)[2] - 1
    /\ rv.val.start_times[<<0, 0>>] > 0

\* |x|
Abs(x) == IF x < 0 THEN -x ELSE x

\* C14: on a grid of one row with the same velocity v in every patch, the
\* start time of column k is |k - k0| * s * h, for the nucleation column
\* k0, the slowness s = TimeScale / v and the grid spacing h the solver is
\* given.
C14_LinearOnOneRow ==
    (/\ StarttimesEnded
     /\ GridGiven(call)
     /\ ~BadSlowness(call)
     /\ ~BadNucleation(call)
     /\ GridShape(call)[1] = 1
     /\ \A i \in 1..Len(VelocitiesOf(call)) :
           VelocitiesOf(call)[i] = VelocitiesOf(call)[1])
    => /\ rv.ok
       /\ \A k \in 0..(GridShape(call)[2] - 1) :
             rv.val.start_times[<<0, k>>]
                = Abs(k - call.nuc_strike_idx)
                      * (TimeScale \div VelocitiesOf(call)[1])
                      * fault.ordering.patch_size_dip

\* C14 witness: one row of three columns, slowness 2 per tick (2.0 per
\* unit of length), spacing 2 ticks (one unit of length, a tick is half a
\* unit), nucleation in column 0: the start times are 0, 4, 8 ticks (0, 2,
\* 4 units of time).
C14_Witness ==
    /\ pc = "get_subfault_starttimes"
    /\ rv.ok
    /\ GridShape(call) = <<1, 3>>
    /\ call.rupture_velocities = <<1, 1, 1>>
    /\ call.nuc_strike_idx = 0
    /\ fault.ordering.patch_size_dip = 2
    /\ rv.val.start_times[<<0, 0>>] = 0
    /\ rv.val.start_times[<<0, 1>>] = 4
    /\ rv.val.start_times[<<0, 2>>] = 8

\* C15: a start time evaluation with a slowness that is not positive fails
\* with InvalidSlowness, one with a nucleation index outside the grid fails
\* with InvalidNucleation (an evaluation with both fails with one of the
\* two); no start times are returned.
C15_InputsValidated ==
    (StarttimesEnded /\ GridGiven(call)) =>
        /\ (BadSlowness(call) \/ BadNucleation(call)) => ~rv.ok
        /\ (BadSlowness(call) /\ ~BadNucleation(call))
              => rv = InvalidSlowness
        /\ (BadNucleation(call) /\ ~BadSlowness(call))
              => rv = InvalidNucleation
        /\ (BadSlowness(call) /\ BadNucleation(call))
              => rv \in {InvalidSlowness, InvalidNucleation}

\* C15 witness: point2starttimes with a negative nucleation coordinate,
\* which fault_locations2idxs turns into a negative index, has failed with
\* InvalidNucleation.
C15_Witness ==
    /\ pc = "point2starttimes"
    /\ call.nucleation_dip < 0
    /\ call.nuc_dip_idx < 0
    /\ ~BadSlowness(call)
    /\ rv = InvalidNucleation

\* C16: while the solver runs, no cell update and no new cycle raises the
\* time of a cell, and the nucleation cell holds the start offset 0 all
\* along.
C16_TimesNeverIncrease ==
    [][solver'.status = "sweeping"
       => /\ solver'.start_times[<<call'.nuc_dip_idx, call'.nuc_strike_idx>>]
               = 0
          /\ solver.status = "sweeping"
                => \A c \in DOMAIN solver.start_times :
                       solver'.start_times[c] <= solver.start_times[c]]_vars

\* C16 witness: in the last sweep of a second cycle, on a grid of more than
\* one row, every cell holds a finite time.
C16_Witness ==
    /\ pc = "fast_sweep"
    /\ solver.iteration = 2
    /\ solver.direction = 3
    /\ solver.args.n_patch_dip > 1
    /\ \A c \in DOMAIN solver.start_times : solver.start_times[c] < Infinity

\* C17: a solver that was started returns; at the end of a cycle of four
\* sweeps it returns the times with the flag converged when no cell has
\* changed by the tolerance, it returns them with the flag not converged
\* when the cap is reached, and it goes on with the next cycle otherwise.
C17_SolverTerminates ==
    /\ (pc = "fast_sweep") ~> (pc # "fast_sweep")
    /\ [](pc = "fast_sweep" => solver.iteration <= solver.cap)
    /\ [][(pc = "fast_sweep" /\ solver.cursor = GridSize)
          => LET change == MaxChange(solver.old, solver.start_times)
                 returns(flag) ==
                     /\ StarttimesEnded'
                     /\ rv'.ok
                     /\ rv'.val.start_times = solver.start_times
                     /\ rv'.val.converged = flag
             IN  IF change < Tolerance THEN returns(TRUE)
                 ELSE IF solver.iteration >= solver.cap THEN returns(FALSE)
                 ELSE /\ pc' = "fast_sweep"
                      /\ solver'.iteration = solver.iteration + 1]_vars

\* C17 witness: the solver has reached its cap in a cycle that still
\* changed a cell, and has returned finite times with the flag not
\* converged.
C17_Witness ==
    /\ StarttimesEnded
    /\ rv.ok
    /\ ~rv.val.converged
    /\ \A c \in DOMAIN rv.val.start_times :
          rv.val.start_times[c] < Infinity

\* C21: the solver is given both spacings: while it runs its spacing
\* along the dip is patch_size_dip and its spacing along the strike is
\* patch_size_strike, so that on a grid of one row with the same velocity v
\* in every patch the start time of column k is |k - k0| * s *
\* patch_size_strike.
C21_BothSpacings ==
    /\ pc = "fast_sweep"
          => /\ DipSpacing(solver.args) = fault.ordering.patch_size_dip
             /\ StrikeSpacing(solver.args) = fault.ordering.patch_size_strike
    /\ (/\ StarttimesEnded
        /\ GridGiven(call)
        /\ ~BadSlowness(call)
        /\ ~BadNucleation(call)
        /\ GridShape(call)[1] = 1
        /\ \A i \in 1..Len(VelocitiesOf(call)) :
              VelocitiesOf(call)[i] = VelocitiesOf(call)[1])
       => /\ rv.ok
          /\ \A k \in 0..(GridShape(call)[2] - 1) :
                rv.val.start_times[<<0, k>>]
                   = Abs(k - call.nuc_strike_idx)
                         * (TimeScale \div VelocitiesOf(call)[1])
                         * fault.ordering.patch_size_strike

(***************************************************************************)
(* The claims about the keys of the store and about indexes, under Spec    *)
(* and SpecOrdering.                                                       *)
(***************************************************************************)
\* The (datatype, component, subfault index) triples of the geometry whose
\* key is source_key.
TriplesOf(source_key) ==
    {t \in Pairs \X Subfaults :
        source_key_of(t[1][1], t[1][2], t[2]) = source_key}

\* C22: no two triples (datatype, component, subfault index) share a stored
\* entry: every stored entry is the entry of one triple, and a pair that no
\* setup call has succeeded for has no source that get_subfault returns.
C22_KeysCollisionFree ==
    /\ \A source_key \in DOMAIN fault.ext_sources :
          Cardinality(TriplesOf(source_key)) = 1
    /\ \A p \in Pairs \ history :
          \A i \in Subfaults : ~get_subfault(fault, i, p[1], p[2]).ret.ok

\* The position lies strictly inside a cell, not on a border.
InsideCell(position, cell_size) == position % cell_size # 0

\* The integer k with k * cell_size <= position < (k + 1) * cell_size.
CellOf(position, cell_size) == position \div cell_size

\* C23: a position strictly inside the interval (k * cell_size,
\* (k + 1) * cell_size) is converted to the index k, for every integer k:
\* negative below 0, the patch count or more beyond the subfault, never
\* clamped and never rejected.
C23_NearestCellUnclamped ==
    (pc # "idle" /\ call.op = "fault_locations2idxs")
    => /\ rv.ok
       /\ InsideCell(call.positions_dip, fault.ordering.patch_size_dip)
             => rv.val[1] = CellOf(call.positions_dip,
                                   fault.ordering.patch_size_dip)
       /\ InsideCell(call.positions_strike, fault.ordering.patch_size_strike)
             => rv.val[2] = CellOf(call.positions_strike,
                                   fault.ordering.patch_size_strike)

\* The lookups of FaultGeometry that take a subfault index.
IndexLookups ==
    {"get_subfault", "get_subfault_patches", "get_patch_indexes",
     "get_subfault_discretization"}

\* C24: a lookup with a subfault index outside 0..nsubfaults-1, negative
\* indexes included, fails: it returns no slice, shape, source or patches.
C24_OutsideIndexFails ==
    (/\ pc # "idle"
     /\ call.op \in IndexLookups
     /\ call.index \notin Subfaults)
    => ~rv.ok

\* C25: the index table of every subfault holds the row-major numbering:
\* the cell (d, s) with 0 <= d < n_dip and 0 <= s < n_strike holds
\* d * n_strike + s, an index of 0..patch_count-1, whatever the patch count.
C25_RowMajorIndexGrid ==
    \A index \in 0..(nsubfaults(fault) - 1) :
        LET pm == fault.ordering.vmap[index + 1]
        IN  \A d \in 0..(pm.shp[1] - 1), s \in 0..(pm.shp[2] - 1) :
                LET held == patchmap(fault, index, d, s).ret
                IN  /\ held.ok
                    /\ held.val = d * pm.shp[2] + s
                    /\ held.val \in 0..(pm.npatches - 1)

====
